---- MODULE Spec2Model ----
(***************************************************************************)
(* Model of crates/runix/src/flake_ref/mod.rs: the flake reference         *)
(* dispatcher FlakeRef::from_str, the untagged FlakeRef enum, the          *)
(* identifier pattern FLAKE_ID_REGEX and the boolean and timestamp         *)
(* attribute codecs.                                                       *)
(*                                                                         *)
(* Strings are TLA+ strings, taken apart with Len and SubSeq.  The         *)
(* per-variant grammars (flake_ref/file.rs, git.rs, git_service.rs,        *)
(* indirect.rs, path.rs, protocol.rs) are not part of the sources at hand; *)
(* their operators are written from the specification and are marked so.   *)
(***************************************************************************)
EXTENDS Integers, Sequences, FiniteSets, TLC

----------------------------------------------------------------------------
(* Characters and string helpers                                           *)

Lower == {"a","b","c","d","e","f","g","h","i","j","k","l","m",
          "n","o","p","q","r","s","t","u","v","w","x","y","z"}
Upper == {"A","B","C","D","E","F","G","H","I","J","K","L","M",
          "N","O","P","Q","R","S","T","U","V","W","X","Y","Z"}
Letter == Lower \cup Upper
Digit == {"0","1","2","3","4","5","6","7","8","9"}

CharAt(s, i) == SubSeq(s, i, i)

StartsWith(s, p) == Len(s) >= Len(p) /\ SubSeq(s, 1, Len(p)) = p

EndsWith(s, p) == Len(s) >= Len(p) /\ SubSeq(s, Len(s) - Len(p) + 1, Len(s)) = p

From(s, i) == SubSeq(s, i, Len(s))

\* index of the first occurrence of the character c in s, 0 when absent
IndexOf(s, c) ==
    LET I == {i \in 1..Len(s) : CharAt(s, i) = c}
    IN  IF I = {} THEN 0 ELSE CHOOSE i \in I : \A j \in I : i <= j

AllIn(s, C) == \A i \in 1..Len(s) : CharAt(s, i) \in C

\* s split at every occurrence of the character c
RECURSIVE Split(_, _)
Split(s, c) ==
    LET i == IndexOf(s, c)
    IN  IF i = 0 THEN <<s>>
        ELSE <<SubSeq(s, 1, i - 1)>> \o Split(From(s, i + 1), c)

RECURSIVE Join(_, _)
Join(parts, c) ==
    IF Len(parts) = 0 THEN ""
    ELSE IF Len(parts) = 1 THEN parts[1]
    ELSE parts[1] \o c \o Join(Tail(parts), c)

----------------------------------------------------------------------------
(* url::Url, as far as the dispatcher and the grammars look at it: scheme, *)
(* authority, path and query.  Fragments, percent-encoding, upper case and *)
(* dot segments are outside the inputs considered.                         *)

SpecialSchemes == {"http", "https", "file"}

IsScheme(t) ==
    /\ Len(t) >= 1
    /\ CharAt(t, 1) \in Letter
    /\ AllIn(t, Letter \cup Digit \cup {"+", "-", "."})

UrlErr == [ok |-> FALSE]

\* characters Host::parse refuses in a host (user info and IPv6 literals
\* are outside the inputs considered)
ForbiddenHostChars == {" ", "<", ">", "[", "]", "^", "|", "@"}

\* the authority host[:port] parses: no forbidden character in the host
\* (ParseError::InvalidDomainCharacter), a port of digits only
\* (ParseError::InvalidPort), and a host for http and https
\* (ParseError::EmptyHost)
ValidAuthority(scheme, auth) ==
    LET p == IndexOf(auth, ":")
        host == IF p = 0 THEN auth ELSE SubSeq(auth, 1, p - 1)
        port == IF p = 0 THEN "" ELSE From(auth, p + 1)
    IN  /\ AllIn(port, Digit)
        /\ \A i \in 1..Len(host) : CharAt(host, i) \notin ForbiddenHostChars
        /\ scheme \in {"http", "https"} => host # ""

\* s without its leading '/' characters
RECURSIVE StripSlashes(_)
StripSlashes(s) == IF StartsWith(s, "/") THEN StripSlashes(From(s, 2)) ELSE s

\* Url::parse: Err (here UrlErr) when the string has no scheme
\* (ParseError::RelativeUrlWithoutBase) or its authority does not parse
UrlParse(s) ==
    LET c == IndexOf(s, ":")
    IN  IF c <= 1 \/ ~IsScheme(SubSeq(s, 1, c - 1)) THEN UrlErr
        ELSE
          LET scheme == SubSeq(s, 1, c - 1)
              rest == From(s, c + 1)
              q == IndexOf(rest, "?")
              main == IF q = 0 THEN rest ELSE SubSeq(rest, 1, q - 1)
              query == IF q = 0 THEN "" ELSE From(rest, q + 1)
              \* http: and https: always have an authority, whatever the
              \* number of slashes; file: without "//" has an empty host
              hasAuth == \/ scheme \in SpecialSchemes
                         \/ StartsWith(main, "//")
              after == IF scheme \in {"http", "https"} THEN StripSlashes(main)
                       ELSE IF StartsWith(main, "//") THEN From(main, 3)
                       ELSE main
              bare == scheme = "file" /\ ~StartsWith(main, "//")
              sl == IndexOf(after, "/")
              auth == IF ~hasAuth \/ bare THEN ""
                      ELSE IF sl = 0 THEN after ELSE SubSeq(after, 1, sl - 1)
              rawPath == IF ~hasAuth THEN main
                         ELSE IF bare THEN "/" \o StripSlashes(main)
                         ELSE IF sl = 0 THEN "" ELSE From(after, sl)
              path == IF scheme \in SpecialSchemes /\ rawPath = "" THEN "/"
                      ELSE rawPath
          IN  IF hasAuth /\ ~ValidAuthority(scheme, auth) THEN UrlErr
              ELSE [ok |-> TRUE, scheme |-> scheme, hasAuth |-> hasAuth,
                    auth |-> auth, path |-> path,
                    hasQuery |-> q # 0, query |-> query]

\* the serialization of a Url without its query
UrlBase(u) ==
    u.scheme \o ":" \o (IF u.hasAuth THEN "//" \o u.auth ELSE "") \o u.path

----------------------------------------------------------------------------
(* Results: Ok(value), Err(error), or the abort of the calling thread.     *)

Ok(v) == [kind |-> "ok", val |-> v]
Err(e) == [kind |-> "err", err |-> e]
Panic == [kind |-> "panic"]
None == [kind |-> "none"]

----------------------------------------------------------------------------
(* The identifier pattern.  Regex::new compiles the pattern unanchored, so *)
(* a match may start at any position of the haystack.                      *)

IdStart == Letter
IdRest == Letter \cup Digit \cup {"_", "-"}

\* the pattern matches the haystack h at position i
FLAKE_ID_REGEX_matches_at(h, i) == i \in 1..Len(h) /\ CharAt(h, i) \in IdStart

\* the pattern, had it been written ^[a-zA-Z][a-zA-Z0-9_-]*$
FLAKE_ID_REGEX_anchored(h) ==
    /\ Len(h) >= 1
    /\ CharAt(h, 1) \in IdStart
    /\ AllIn(From(h, 2), IdRest)

\* Regex::is_match on FLAKE_ID_REGEX
FLAKE_ID_REGEX(h) == \E i \in 1..Len(h) : FLAKE_ID_REGEX_matches_at(h, i)

----------------------------------------------------------------------------
(* Boolean codec                                                           *)

\* a parse that also accepts a capitalised first letter
str_parse_bool_lenient(t) ==
    IF t \in {"true", "True"} THEN Ok(TRUE)
    ELSE IF t \in {"false", "False"} THEN Ok(FALSE)
    ELSE Err("ParseBoolError")

\* <bool as FromStr>::from_str
str_parse_bool(t) ==
    IF t = "true" THEN Ok(TRUE)
    ELSE IF t = "false" THEN Ok(FALSE)
    ELSE Err("ParseBoolError")

\* serialized values handed to a Deserializer: a boolean, a string or an
\* integer
JBool(b) == [type |-> "bool", b |-> b]
JStr(t) == [type |-> "string", str |-> t]
JInt(n) == [type |-> "int", n |-> n]

\* #[serde(untagged)] enum BoolReprs { String(String), Bool(bool) }
BoolReprs_deserialize(j) ==
    IF j.type = "string" THEN Ok([repr |-> "String", str |-> j.str])
    ELSE IF j.type = "bool" THEN Ok([repr |-> "Bool", b |-> j.b])
    ELSE Err("data did not match any variant of untagged enum BoolReprs")

\* impl TryFrom<BoolReprs> for bool
bool_try_from(value) ==
    IF value.repr = "String" THEN str_parse_bool(value.str)
    ELSE Ok(value.b)

\* BoolReprs::deserialize_bool
deserialize_bool(j) ==
    LET r == BoolReprs_deserialize(j)
    IN  IF r.kind = "err" THEN r
        ELSE LET b == bool_try_from(r.val)
             IN  IF b.kind = "err" THEN Err("custom: " \o b.err) ELSE b

----------------------------------------------------------------------------
(* Timestamp codec.  An instant is its number of whole seconds since the   *)
(* epoch.  chrono represents the instants MIN_UTC_SECS..MAX_UTC_SECS; the  *)
(* range is scaled down here, the decimal rendering is not.                *)

MAX_UTC_SECS == 11
MIN_UTC_SECS == -11

DigitChar == <<"0","1","2","3","4","5","6","7","8","9">>

DigitValue(c) == CHOOSE d \in 0..9 : DigitChar[d + 1] = c

RECURSIVE u64_to_string(_)
u64_to_string(n) ==
    IF n < 10 THEN DigitChar[n + 1]
    ELSE u64_to_string(n \div 10) \o DigitChar[(n % 10) + 1]

\* <i64 as Display>
i64_to_string(n) == IF n < 0 THEN "-" \o u64_to_string(0 - n) ELSE u64_to_string(n)

RECURSIVE digits_value(_)
digits_value(t) ==
    IF Len(t) = 0 THEN 0
    ELSE 10 * digits_value(SubSeq(t, 1, Len(t) - 1)) + DigitValue(CharAt(t, Len(t)))

RECURSIVE trim_left(_)
trim_left(t) == IF StartsWith(t, " ") THEN trim_left(From(t, 2)) ELSE t

\* number of leading characters of t that are in C
RECURSIVE LeadingIn(_, _)
LeadingIn(t, C) ==
    IF Len(t) >= 1 /\ CharAt(t, 1) \in C THEN 1 + LeadingIn(From(t, 2), C) ELSE 0

\* Utc.timestamp_opt(t, 0).earliest()
timestamp_opt(t) ==
    IF t >= MIN_UTC_SECS /\ t <= MAX_UTC_SECS THEN Ok([secs |-> t])
    ELSE None

\* NaiveDateTime::parse_from_str(&s, "%s") followed by
\* .and_local_timezone(Utc).earliest().unwrap(): leading white space is
\* skipped, then one or more digits and nothing else; the item is unsigned
parse_from_str(t) ==
    LET u == trim_left(t)
        k == LeadingIn(u, Digit)
        r == timestamp_opt(digits_value(SubSeq(u, 1, k)))
    IN  IF k = 0 THEN Err([e |-> "FromString",
                           why |-> IF u = "" THEN "TooShort" ELSE "Invalid"])
        ELSE IF k < Len(u) THEN Err([e |-> "FromString", why |-> "TooLong"])
        ELSE IF r.kind = "none" THEN Err([e |-> "FromString", why |-> "OutOfRange"])
        ELSE r

\* #[serde(untagged)] enum TimestampDeserialize { TsI64(i64), TsString(String) }
TimestampDeserialize_deserialize(j) ==
    IF j.type = "int" THEN Ok([repr |-> "TsI64", n |-> j.n])
    ELSE IF j.type = "string" THEN Ok([repr |-> "TsString", str |-> j.str])
    ELSE Err([e |-> "NoVariant"])

\* impl TryFrom<TimestampDeserialize> for Timestamp
Timestamp_try_from(value) ==
    IF value.repr = "TsI64"
    THEN LET r == timestamp_opt(value.n)
         IN  IF r.kind = "none" THEN Err([e |-> "FromInt", n |-> value.n]) ELSE r
    ELSE parse_from_str(value.str)

\* #[serde(try_from = "TimestampDeserialize")] struct Timestamp
Timestamp_deserialize(j) ==
    LET r == TimestampDeserialize_deserialize(j)
    IN  IF r.kind = "err" THEN r ELSE Timestamp_try_from(r.val)

----------------------------------------------------------------------------
(* Attribute sets: the query of a reference, "k=v&k=v".  Keys are unique,  *)
(* their order is irrelevant; the canonical rendering lists the known keys *)
(* in a fixed order and the other keys after them.                         *)

KnownKeys == <<"dir", "lastModified", "narHash", "ref", "rev", "shallow", "submodules">>

Rank(k) ==
    LET I == {i \in 1..Len(KnownKeys) : KnownKeys[i] = k}
    IN  IF I = {} THEN Len(KnownKeys) + 1 ELSE CHOOSE i \in I : TRUE

\* the pair kv inserted into the sorted sequence ps, after its equals
RECURSIVE InsertAttr(_, _)
InsertAttr(ps, kv) ==
    IF Len(ps) = 0 THEN <<kv>>
    ELSE IF Rank(kv[1]) < Rank(ps[1][1]) THEN <<kv>> \o ps
    ELSE <<ps[1]>> \o InsertAttr(Tail(ps), kv)

RECURSIVE SortAttrs(_)
SortAttrs(ps) ==
    IF Len(ps) = 0 THEN <<>>
    ELSE InsertAttr(SortAttrs(SubSeq(ps, 1, Len(ps) - 1)), ps[Len(ps)])

KeyValue(t) ==
    LET e == IndexOf(t, "=")
    IN  IF e = 0 THEN <<t, "">> ELSE <<SubSeq(t, 1, e - 1), From(t, e + 1)>>

\* the attributes of a query; keys listed in boolKeys go through the
\* boolean codec
parse_attrs(query, boolKeys) ==
    LET items == IF query = "" THEN <<>> ELSE Split(query, "&")
        ps == [i \in 1..Len(items) |-> KeyValue(items[i])]
        dup == \E i, k \in 1..Len(ps) : i # k /\ ps[i][1] = ps[k][1]
        badBool == \E i \in 1..Len(ps) :
                      /\ ps[i][1] \in boolKeys
                      /\ deserialize_bool(JStr(ps[i][2])).kind = "err"
    IN  IF dup THEN Err("DuplicateAttribute")
        ELSE IF badBool THEN Err("BooleanDecodeError")
        ELSE Ok(SortAttrs(ps))

render_attrs(ps) ==
    IF Len(ps) = 0 THEN ""
    ELSE "?" \o Join([i \in 1..Len(ps) |-> ps[i][1] \o "=" \o ps[i][2]], "&")

----------------------------------------------------------------------------
(* Per-variant grammars: scheme(), parses(), from_url()/from_str() and     *)
(* Display of the six families.                                            *)

ArchiveExtensions == {".zip", ".tar", ".tgz", ".tar.gz", ".tar.xz", ".tar.bz2", ".tar.zst"}

\* a sniffing rule that looks at the whole url text, query included
is_tarball_text(url) ==
    \E e \in ArchiveExtensions :
        EndsWith(url.path \o (IF url.hasQuery THEN "?" \o url.query ELSE ""), e)

\* the path component of the url ends in a recognized archive extension
is_tarball_url(url) == \E e \in ArchiveExtensions : EndsWith(url.path, e)

\* application::File::required / application::Tarball::required: the bare
\* url is one of this application's
application_required(app, url) ==
    IF app = "tarball" THEN is_tarball_url(url) ELSE ~is_tarball_url(url)

\* FlakeRefSource::scheme of FileRef<P> / TarballRef<P>
FileBased_scheme(app, proto) == app \o "+" \o proto

\* FlakeRefSource::parses, the provided method of the trait
parses(scheme, maybe_ref) == StartsWith(maybe_ref, scheme \o ":")

\* FlakeRefSource::parses of FileRef<P> / TarballRef<P>: the qualified
\* prefix, or the bare transport scheme with the path sniffed
FileBased_parses(app, proto, maybe_ref) ==
    \/ parses(FileBased_scheme(app, proto), maybe_ref)
    \/ /\ parses(proto, maybe_ref)
       /\ UrlParse(maybe_ref).ok
       /\ application_required(app, UrlParse(maybe_ref))

\* FlakeRefSource::from_url of FileRef<P> / TarballRef<P>
FileBased_from_url(app, proto, url) ==
    IF url.scheme \notin {FileBased_scheme(app, proto), proto}
    THEN Err("InvalidScheme")
    ELSE LET as == parse_attrs(url.query, {})
         IN  IF as.kind = "err" THEN as
             ELSE Ok([scheme |-> url.scheme, hasAuth |-> url.hasAuth,
                      auth |-> url.auth, path |-> url.path, attrs |-> as.val])

\* FromStr of FileRef<P> / TarballRef<P>
FileBased_from_str(app, proto, t) ==
    LET url == UrlParse(t)
    IN  IF ~url.ok THEN Err("UrlParseError") ELSE FileBased_from_url(app, proto, url)

\* Display of FileRef<P> / TarballRef<P> and of GitRef<P>
Url_display(v) == UrlBase(v) \o render_attrs(v.attrs)

\* FromStr of GitRef<P>
GitRef_from_str(proto, t) ==
    LET url == UrlParse(t)
    IN  IF ~url.ok THEN Err("UrlParseError")
        ELSE IF url.scheme # "git+" \o proto THEN Err("InvalidScheme")
        ELSE LET as == parse_attrs(url.query, {"shallow", "submodules"})
             IN  IF as.kind = "err" THEN as
                 ELSE Ok([scheme |-> url.scheme, hasAuth |-> url.hasAuth,
                          auth |-> url.auth, path |-> url.path,
                          attrs |-> as.val])

\* FromStr of GitServiceRef<S>: service:owner/repo[/ref-or-rev][?attrs]
GitServiceRef_from_str(service, t) ==
    LET body == From(t, Len(service) + 2)
        q == IndexOf(body, "?")
        main == IF q = 0 THEN body ELSE SubSeq(body, 1, q - 1)
        parts == Split(main, "/")
        as == parse_attrs(IF q = 0 THEN "" ELSE From(body, q + 1), {})
    IN  IF Len(parts) \notin {2, 3} THEN Err("InvalidPath")
        ELSE IF ~FLAKE_ID_REGEX(parts[1]) \/ ~FLAKE_ID_REGEX(parts[2])
        THEN Err("InvalidIdentifier")
        ELSE IF Len(parts) = 3 /\ parts[3] = "" THEN Err("InvalidPath")
        ELSE IF as.kind = "err" THEN as
        ELSE Ok([service |-> service, owner |-> parts[1], repo |-> parts[2],
                 rev_or_ref |-> IF Len(parts) = 3 THEN parts[3] ELSE "",
                 attrs |-> as.val])

GitServiceRef_display(v) ==
    v.service \o ":" \o v.owner \o "/" \o v.repo
      \o (IF v.rev_or_ref = "" THEN "" ELSE "/" \o v.rev_or_ref)
      \o render_attrs(v.attrs)

\* FromStr of PathRef: path:<path>[?attrs]
PathRef_from_str(t) ==
    LET body == From(t, 6)
        q == IndexOf(body, "?")
        path == IF q = 0 THEN body ELSE SubSeq(body, 1, q - 1)
        as == parse_attrs(IF q = 0 THEN "" ELSE From(body, q + 1), {})
    IN  IF path = "" THEN Err("EmptyPath")
        ELSE IF as.kind = "err" THEN as
        ELSE Ok([path |-> path, attrs |-> as.val])

PathRef_display(v) == "path:" \o v.path \o render_attrs(v.attrs)

\* FromStr of IndirectRef: flake:<identifier>[/<ref-or-rev>]
IndirectRef_from_str(t) ==
    LET body == From(t, 7)
        sl == IndexOf(body, "/")
        id == IF sl = 0 THEN body ELSE SubSeq(body, 1, sl - 1)
        rest == IF sl = 0 THEN "" ELSE From(body, sl + 1)
    IN  IF ~FLAKE_ID_REGEX(id) THEN Err("InvalidIdentifier")
        ELSE IF sl # 0 /\ rest = "" THEN Err("InvalidPath")
        ELSE Ok([id |-> id, rev_or_ref |-> rest])

IndirectRef_display(v) ==
    "flake:" \o v.id \o (IF v.rev_or_ref = "" THEN "" ELSE "/" \o v.rev_or_ref)

----------------------------------------------------------------------------
(* FlakeRef: the enum and the dispatcher FlakeRef::from_str                *)

\* the variants of enum FlakeRef, in declaration order
FlakeRef == <<"FileFile", "FileHTTP", "FileHTTPS",
              "TarballFile", "TarballHTTP", "TarballHTTPS",
              "Github", "Gitlab", "Path",
              "GitPath", "GitSsh", "GitHttps", "GitHttp", "Indirect">>

Arm(variant, family, app, proto) ==
    [variant |-> variant, family |-> family, app |-> app, proto |-> proto]

\* an arm list in which the two git-over-http arms produce each other's
\* variant
Arms_swapped_into ==
    << Arm("FileFile", "File", "file", "file"),
       Arm("FileFile", "File", "file", "file"),
       Arm("FileHTTP", "File", "file", "http"),
       Arm("FileHTTPS", "File", "file", "https"),
       Arm("TarballFile", "File", "tarball", "file"),
       Arm("TarballHTTP", "File", "tarball", "http"),
       Arm("TarballHTTPS", "File", "tarball", "https"),
       Arm("Github", "GitService", "github", ""),
       Arm("Gitlab", "GitService", "gitlab", ""),
       Arm("Path", "Path", "path", ""),
       Arm("GitPath", "Git", "git", "file"),
       Arm("GitSsh", "Git", "git", "ssh"),
       Arm("GitHttps", "Git", "git", "http"),
       Arm("GitHttp", "Git", "git", "https"),
       Arm("Indirect", "Indirect", "flake", "") >>

\* the arms of the match in from_str, in source order, without the final
\* `_ => Err(Invalid)`: the variant an arm produces, the member of
\* ParseFlakeRefError its error converts to, and the type it parses
Arms ==
    << Arm("FileFile", "File", "file", "file"),
       Arm("FileFile", "File", "file", "file"),
       Arm("FileHTTP", "File", "file", "http"),
       Arm("FileHTTPS", "File", "file", "https"),
       Arm("TarballFile", "File", "tarball", "file"),
       Arm("TarballHTTP", "File", "tarball", "http"),
       Arm("TarballHTTPS", "File", "tarball", "https"),
       Arm("Github", "GitService", "github", ""),
       Arm("Gitlab", "GitService", "gitlab", ""),
       Arm("Path", "Path", "path", ""),
       Arm("GitPath", "Git", "git", "file"),
       Arm("GitSsh", "Git", "git", "ssh"),
       Arm("GitHttp", "Git", "git", "http"),
       Arm("GitHttps", "Git", "git", "https"),
       Arm("Indirect", "Indirect", "flake", "") >>

NumArms == Len(Arms)

\* the guards, with a first arm that takes every bare file: url
ArmGuard_unsniffed(i, t, url) ==
    LET a == Arms[i]
    IN  IF i = 1 THEN url.scheme = "file"
        ELSE IF a.family = "File" THEN FileBased_parses(a.app, a.proto, t)
        ELSE IF a.family = "Git" THEN parses("git+" \o a.proto, t)
        ELSE parses(a.app, t)

\* the guard of arm i: the first arm matches on url.scheme(), the others
\* ask the recognizer of their type
ArmGuard(i, t, url) ==
    LET a == Arms[i]
    IN  IF i = 1 THEN url.scheme = "file" /\ application_required("file", url)
        ELSE IF a.family = "File" THEN FileBased_parses(a.app, a.proto, t)
        ELSE IF a.family = "Git" THEN parses("git+" \o a.proto, t)
        ELSE parses(a.app, t)

\* the parse of arm i, before `?` and `.into()`.  The first arm hands the
\* Url to from_url, the others parse the string.  The body of the second
\* arm breaks off after `s.parse::<`; it is read as the parse of the type
\* its guard names, which is what every other arm does.
ArmBody(i, t, url) ==
    LET a == Arms[i]
    IN  IF i = 1 THEN FileBased_from_url(a.app, a.proto, url)
        ELSE IF a.family = "File" THEN FileBased_from_str(a.app, a.proto, t)
        ELSE IF a.family = "Git" THEN GitRef_from_str(a.proto, t)
        ELSE IF a.family = "GitService" THEN GitServiceRef_from_str(a.app, t)
        ELSE IF a.family = "Path" THEN PathRef_from_str(t)
        ELSE IndirectRef_from_str(t)

Invalid == Err([family |-> "Invalid", cause |-> ""])

\* an arm that answers a failed parse with the catch-all error
swallow(i, r) ==
    IF r.kind = "err" THEN Invalid
    ELSE Ok([variant |-> Arms[i].variant, family |-> Arms[i].family, data |-> r.val])

\* `?` and `.into()` of arm i: #[from] wraps the error in the member of
\* ParseFlakeRefError of the arm's family, From wraps the value in the
\* arm's variant
question_mark_into(i, r) ==
    IF r.kind = "err" THEN Err([family |-> Arms[i].family, cause |-> r.err])
    ELSE Ok([variant |-> Arms[i].variant, family |-> Arms[i].family, data |-> r.val])

\* a rendering that always writes the application qualifier
FlakeRef_display_qualified(v) ==
    IF v.family = "File"
    THEN (IF StartsWith(v.data.scheme, "file+") \/ StartsWith(v.data.scheme, "tarball+")
          THEN "" ELSE (IF StartsWith(v.variant, "Tarball") THEN "tarball+" ELSE "file+"))
         \o Url_display(v.data)
    ELSE IF v.family = "Git" THEN Url_display(v.data)
    ELSE IF v.family = "GitService" THEN GitServiceRef_display(v.data)
    ELSE IF v.family = "Path" THEN PathRef_display(v.data)
    ELSE IndirectRef_display(v.data)

\* #[derive(Display)] on FlakeRef: the Display of the active variant
FlakeRef_display(v) ==
    IF v.family \in {"File", "Git"} THEN Url_display(v.data)
    ELSE IF v.family = "GitService" THEN GitServiceRef_display(v.data)
    ELSE IF v.family = "Path" THEN PathRef_display(v.data)
    ELSE IndirectRef_display(v.data)

----------------------------------------------------------------------------
(* #[derive(Serialize, Deserialize)] #[serde(untagged)] on FlakeRef        *)

\* the transport of a url-based value: its scheme without the qualifier
Transport(scheme) ==
    LET p == IndexOf(scheme, "+") IN IF p = 0 THEN scheme ELSE From(scheme, p + 1)

\* the type tag and transport of the structured form of a variant
VariantShape(variant) ==
    CASE variant = "FileFile" -> [tag |-> "file", proto |-> "file"]
      [] variant = "FileHTTP" -> [tag |-> "file", proto |-> "http"]
      [] variant = "FileHTTPS" -> [tag |-> "file", proto |-> "https"]
      [] variant = "TarballFile" -> [tag |-> "tarball", proto |-> "file"]
      [] variant = "TarballHTTP" -> [tag |-> "tarball", proto |-> "http"]
      [] variant = "TarballHTTPS" -> [tag |-> "tarball", proto |-> "https"]
      [] variant = "Github" -> [tag |-> "github", proto |-> ""]
      [] variant = "Gitlab" -> [tag |-> "gitlab", proto |-> ""]
      [] variant = "Path" -> [tag |-> "path", proto |-> ""]
      [] variant = "GitPath" -> [tag |-> "git", proto |-> "file"]
      [] variant = "GitSsh" -> [tag |-> "git", proto |-> "ssh"]
      [] variant = "GitHttps" -> [tag |-> "git", proto |-> "https"]
      [] variant = "GitHttp" -> [tag |-> "git", proto |-> "http"]
      [] variant = "Indirect" -> [tag |-> "indirect", proto |-> ""]

VariantFamily(variant) ==
    CHOOSE f \in {"File", "GitService", "Path", "Git", "Indirect"} :
        \E i \in 1..NumArms : Arms[i].variant = variant /\ Arms[i].family = f

\* Serialize of FlakeRef: the structured form of the active variant
FlakeRef_serialize(v) ==
    [type |-> "object",
     tag |-> VariantShape(v.variant).tag,
     proto |-> IF v.family \in {"File", "Git"} THEN Transport(v.data.scheme) ELSE "",
     data |-> v.data]

\* Deserialize of one variant: the structural decode of its type
Variant_deserialize(variant, j) ==
    IF j.type = "object" /\ j.tag = VariantShape(variant).tag
                         /\ j.proto = VariantShape(variant).proto
    THEN Ok([variant |-> variant, family |-> VariantFamily(variant), data |-> j.data])
    ELSE Err("NoMatch")

----------------------------------------------------------------------------
(* Inputs                                                                  *)

\* the literals of tests::test_all_parsing, with the variant asserted
TestTable ==
    << <<"file+file:///somewhere/there", "FileFile">>,
       <<"file:///somewhere/there", "FileFile">>,
       <<"file+http://my.de/path/to/file", "FileHTTP">>,
       <<"http://my.de/path/to/file", "FileHTTP">>,
       <<"file+https://my.de/path/to/file", "FileHTTPS">>,
       <<"https://my.de/path/to/file", "FileHTTPS">>,
       <<"tarball+file:///somewhere/there", "TarballFile">>,
       <<"file:///somewhere/there.tar.gz", "TarballFile">>,
       <<"tarball+http://my.de/path/to/file", "TarballHTTP">>,
       <<"http://my.de/path/to/file.tar.gz", "TarballHTTP">>,
       <<"tarball+https://my.de/path/to/file", "TarballHTTPS">>,
       <<"https://my.de/path/to/file.tar.gz", "TarballHTTPS">>,
       <<"github:flox/runix", "Github">>,
       <<"gitlab:flox/runix", "Gitlab">>,
       <<"path:/somewhere/there", "Path">>,
       <<"git+file:///somewhere/there", "GitPath">>,
       <<"git+ssh://github.com/flox/runix", "GitSsh">>,
       <<"git+https://github.com/flox/runix", "GitHttps">>,
       <<"git+http://github.com/flox/runix", "GitHttp">>,
       <<"flake:nixpkgs", "Indirect">> >>

TestLiterals == {TestTable[i][1] : i \in 1..Len(TestTable)}

\* further strings: non-canonical spellings, qualified urls with archive
\* paths, attribute sets, identifiers, strings that are not urls and
\* strings no recognizer accepts
OtherStrings ==
    { "http://my.de", "https://my.de?rev=abc&dir=sub",
      "file+file:///somewhere/there.tar.gz",
      "file+http://my.de/path/to/file.tar.gz",
      "file+https://my.de/path/to/file.zip",
      "tarball+https://my.de/path/to/file.tgz",
      "git+https://github.com/flox/runix.tar.gz",
      "https://my.de/path/to/file.tar.gz?rev=abc",
      "https://my.de/path/to/file?rev=abc.tar.gz",
      "file:///somewhere/there?dir=x.zip",
      "http://my.de/a.tar?rev=a&rev=b",
      "file+file:///somewhere/there?rev=a&rev=b",
      "git+ssh://github.com/flox/runix?shallow=true&ref=main",
      "git+http://github.com/flox/runix?shallow=yes",
      "github:fl0x-/runix", "github:1flox/runix", "github:flox/runix/main",
      "github:flox", "gitlab:12/34", "path:", "path:./rel?dir=a",
      "flake:nixpkgs/unstable", "flake:42", "flake:",
      "not-a-ref", "nixpkgs", "", "/somewhere/there",
      "file+http://my.de:x/f", "git+https://:x/", "https://",
      "ssh://github.com/flox/runix", "mailto:me" }

Strings == TestLiterals \cup OtherStrings

Booleans == {JBool(TRUE), JBool(FALSE)}

BoolStrings == {"true", "false", "True", "FALSE", "1", "0", "yes", "", " true", "truee"}

\* integers of epoch seconds are drawn from -MaxEpoch..MaxEpoch
MaxEpoch == 13

TimestampStrings == {"", " 7", "+7", "7s", "seven", "007", "- 7", "12 "}

\* structured values handed to FlakeRef's Deserialize directly
StructuredInputs ==
    { [type |-> "object", tag |-> "git", proto |-> "https",
       data |-> [scheme |-> "git+https", hasAuth |-> TRUE, auth |-> "github.com",
                 path |-> "/flox/runix", attrs |-> <<>>]],
      [type |-> "object", tag |-> "indirect", proto |-> "",
       data |-> [id |-> "nixpkgs", rev_or_ref |-> ""]],
      [type |-> "object", tag |-> "mercurial", proto |-> "",
       data |-> [id |-> "nixpkgs", rev_or_ref |-> ""]],
      JStr("github:flox/runix"), JInt(0) }

NoJ == [type |-> "none"]

\* <bool as Display>
bool_to_string(b) == IF b THEN "true" ELSE "false"

----------------------------------------------------------------------------
(* ImpureFlakeRef                                                          *)

\* a match whose Ok arm turns a failed parse into an Impure reference
Pure_or_Impure(t, r) ==
    IF r.kind = "err" THEN Ok([variant |-> "Impure", str |-> t])
    ELSE Ok([variant |-> "Pure", ref |-> r.val])

\* `Ok(Self::Pure(s.parse()?))`: r is what s.parse() returned; `?` hands
\* its error to the caller of ImpureFlakeRef::from_str
Pure_question_mark(t, r) ==
    IF r.kind = "err" THEN r
    ELSE Ok([variant |-> "Pure", ref |-> r.val])

\* `Ok(Self::Impure(s.to_string()))`
Impure_to_string(t) == Ok([variant |-> "Impure", str |-> "" \o t])

----------------------------------------------------------------------------
(* FLAKE_ID_REGEX as a once_cell::sync::Lazy<Regex>: a OnceCell whose      *)
(* state goes Incomplete -> Running -> Complete, and the closure given to  *)
(* Lazy::new.                                                              *)

\* threads that use the pattern
NumThreads == 3

Threads == 1..NumThreads

\* identifiers the threads match
Identifiers == {"flox", "1flox"}

\* the pattern text given to Regex::new, and the empty cell
Pattern == "[a-zA-Z][a-zA-Z0-9_-]*"
Uninit == "uninit"

\* a store in place of the exchange: it goes through whatever the state is
store_unconditional(expected, current) == TRUE

\* AtomicPtr::compare_exchange on the cell's state succeeds when the state
\* is still the one the thread loaded
compare_exchange(expected, current) == expected = current

----------------------------------------------------------------------------
(* The state: one call of an entry point, and what its caller does with    *)
(* the value it returns.                                                   *)

VARIABLES
    op,        \* the entry point: "from_str", "deserialize", "bool", "timestamp"
    orig,      \* the string first handed to from_str
    j0,        \* the serialized value first handed to a deserializer
    s,         \* the string from_str is parsing
    j,         \* the serialized value being deserialized
    round,     \* 1 for the first call, 2 for the call on the respelled input
    pc,        \* position in the call
    url,       \* the Url bound in from_str
    arm,       \* the arm of the match from_str is at
    vi,        \* the variant the untagged Deserialize is at
    result,    \* what the call returned
    first,     \* what the first call returned
    out,       \* the rendering of result
    firstOut,  \* the rendering of first
    decoded,   \* what FlakeRef's Deserialize returned
    impure,    \* what ImpureFlakeRef::from_str returned
    cell,      \* FLAKE_ID_REGEX: the state of its OnceCell and its value
    inits,     \* how many times the closure of Lazy::new has run
    writes,    \* how many times the value of the cell has been written
    tpc,       \* the position of each thread that uses FLAKE_ID_REGEX
    obs,       \* the state of the cell each thread last loaded
    seen,      \* the pattern each thread got from the cell
    hay,       \* the identifier each thread matches
    matched    \* what is_match returned to each thread

lazyVars == <<cell, inits, writes, tpc, obs, seen, hay, matched>>

vars == <<op, orig, j0, s, j, round, pc, url, arm, vi, result, first, out,
          firstOut, decoded, impure, lazyVars>>

Init ==
    /\ op \in {"from_str", "impure", "deserialize", "bool", "timestamp", "regex"}
    /\ orig \in IF op \in {"from_str", "impure"} THEN Strings ELSE {""}
    /\ s = orig
    /\ j0 \in CASE op \in {"from_str", "impure", "regex"} -> {NoJ}
                [] op = "deserialize" -> StructuredInputs
                [] op = "bool" -> Booleans \cup {JStr(t) : t \in BoolStrings}
                                           \cup {JInt(1)}
                [] op = "timestamp" -> {JInt(n) : n \in (0 - MaxEpoch)..MaxEpoch}
                                         \cup {JStr(t) : t \in TimestampStrings}
                                         \cup {JBool(TRUE)}
    /\ j = j0
    /\ round = 1
    /\ pc = CASE op = "deserialize" -> "deser"
              [] op = "impure" -> "icall"
              [] op = "regex" -> "threads"
              [] OTHER -> "call"
    /\ url = UrlErr
    /\ arm = 0
    /\ vi = IF op = "deserialize" THEN 1 ELSE 0
    /\ result = None
    /\ first = None
    /\ out = ""
    /\ firstOut = ""
    /\ decoded = None
    /\ impure = None
    /\ cell = [state |-> "Incomplete", value |-> Uninit]
    /\ inits = 0
    /\ writes = 0
    /\ tpc = [t \in Threads |-> "start"]
    /\ obs = [t \in Threads |-> "Incomplete"]
    /\ seen = [t \in Threads |-> Uninit]
    /\ hay \in IF op = "regex" THEN [Threads -> Identifiers]
               ELSE {[t \in Threads |-> ""]}
    /\ matched = [t \in Threads |-> None]

\* from_str, `let url = Url::parse(s).unwrap()`: the string is a url
UrlParsed ==
    /\ op \in {"from_str", "impure"} /\ pc = "call"
    /\ UrlParse(s).ok
    /\ url' = UrlParse(s)
    /\ arm' = 1
    /\ pc' = "match"
    /\ UNCHANGED <<op, orig, j0, s, j, round, vi, result, first, out, firstOut, decoded>>
    /\ UNCHANGED <<impure, lazyVars>>

\* from_str, `let url = Url::parse(s).unwrap()`: unwrap on Err panics
UrlUnwrapPanics ==
    /\ op \in {"from_str", "impure"} /\ pc = "call"
    /\ ~UrlParse(s).ok
    /\ result' = Panic
    /\ pc' = "abort"
    /\ UNCHANGED <<op, orig, j0, s, j, round, url, arm, vi, first, out, firstOut, decoded>>
    /\ UNCHANGED <<impure, lazyVars>>

\* from_str: the guard of the arm is false, the match goes to the next arm
ArmRejects ==
    /\ op \in {"from_str", "impure"} /\ pc = "match"
    /\ arm <= NumArms
    /\ ~ArmGuard(arm, s, url)
    /\ arm' = arm + 1
    /\ UNCHANGED <<op, orig, j0, s, j, round, pc, url, vi, result, first, out, firstOut, decoded>>
    /\ UNCHANGED <<impure, lazyVars>>

\* from_str: the guard of the arm is true, its body runs and from_str returns
ArmAccepts ==
    /\ op \in {"from_str", "impure"} /\ pc = "match"
    /\ arm <= NumArms
    /\ ArmGuard(arm, s, url)
    /\ result' = question_mark_into(arm, ArmBody(arm, s, url))
    /\ pc' = "ret"
    /\ UNCHANGED <<op, orig, j0, s, j, round, url, arm, vi, first, out, firstOut, decoded>>
    /\ UNCHANGED <<impure, lazyVars>>

\* from_str: `_ => Err(ParseFlakeRefError::Invalid)?`
NoArm ==
    /\ op \in {"from_str", "impure"} /\ pc = "match"
    /\ arm = NumArms + 1
    /\ result' = Invalid
    /\ pc' = "ret"
    /\ UNCHANGED <<op, orig, j0, s, j, round, url, arm, vi, first, out, firstOut, decoded>>
    /\ UNCHANGED <<impure, lazyVars>>

\* the caller renders the reference: to_string()
Render ==
    /\ op = "from_str" /\ pc = "ret"
    /\ result.kind = "ok"
    /\ out' = FlakeRef_display(result.val)
    /\ pc' = "rendered"
    /\ UNCHANGED <<op, orig, j0, s, j, round, url, arm, vi, result, first, firstOut, decoded>>
    /\ UNCHANGED <<impure, lazyVars>>

\* the caller parses the rendering again
Reparse ==
    /\ op = "from_str" /\ pc = "rendered" /\ round = 1
    /\ first' = result
    /\ firstOut' = out
    /\ s' = out
    /\ round' = 2
    /\ pc' = "call"
    /\ result' = None
    /\ url' = UrlErr
    /\ arm' = 0
    /\ UNCHANGED <<op, orig, j0, j, vi, out, decoded>>
    /\ UNCHANGED <<impure, lazyVars>>

\* the caller serializes the reference and deserializes the structured form
Serialize ==
    /\ op = "from_str" /\ pc = "ret" /\ round = 1
    /\ result.kind = "ok"
    /\ j' = FlakeRef_serialize(result.val)
    /\ vi' = 1
    /\ pc' = "deser"
    /\ UNCHANGED <<op, orig, j0, s, round, url, arm, result, first, out, firstOut, decoded>>
    /\ UNCHANGED <<impure, lazyVars>>

\* untagged Deserialize: the variant does not decode, the next one is tried
VariantMismatch ==
    /\ pc = "deser"
    /\ vi <= Len(FlakeRef)
    /\ Variant_deserialize(FlakeRef[vi], j).kind = "err"
    /\ vi' = vi + 1
    /\ UNCHANGED <<op, orig, j0, s, j, round, pc, url, arm, result, first, out, firstOut, decoded>>
    /\ UNCHANGED <<impure, lazyVars>>

\* untagged Deserialize: the first variant that decodes is the result
VariantDecodes ==
    /\ pc = "deser"
    /\ vi <= Len(FlakeRef)
    /\ Variant_deserialize(FlakeRef[vi], j).kind = "ok"
    /\ decoded' = Variant_deserialize(FlakeRef[vi], j)
    /\ pc' = "decoded"
    /\ UNCHANGED <<op, orig, j0, s, j, round, url, arm, vi, result, first, out, firstOut>>
    /\ UNCHANGED <<impure, lazyVars>>

\* untagged Deserialize: no variant decodes
NoVariant ==
    /\ pc = "deser"
    /\ vi = Len(FlakeRef) + 1
    /\ decoded' = Err("data did not match any variant of untagged enum FlakeRef")
    /\ pc' = "decoded"
    /\ UNCHANGED <<op, orig, j0, s, j, round, url, arm, vi, result, first, out, firstOut>>
    /\ UNCHANGED <<impure, lazyVars>>

\* BoolReprs::deserialize_bool
DeserializeBool ==
    /\ op = "bool" /\ pc = "call"
    /\ result' = deserialize_bool(j)
    /\ pc' = "ret"
    /\ UNCHANGED <<op, orig, j0, s, j, round, url, arm, vi, first, out, firstOut, decoded>>
    /\ UNCHANGED <<impure, lazyVars>>

\* the caller hands in the string spelling of the boolean it handed in
RespellBool ==
    /\ op = "bool" /\ pc = "ret" /\ round = 1
    /\ j.type = "bool"
    /\ first' = result
    /\ j' = JStr(bool_to_string(j.b))
    /\ round' = 2
    /\ pc' = "call"
    /\ result' = None
    /\ UNCHANGED <<op, orig, j0, s, url, arm, vi, out, firstOut, decoded>>
    /\ UNCHANGED <<impure, lazyVars>>

\* Timestamp's Deserialize
DeserializeTimestamp ==
    /\ op = "timestamp" /\ pc = "call"
    /\ result' = Timestamp_deserialize(j)
    /\ pc' = "ret"
    /\ UNCHANGED <<op, orig, j0, s, j, round, url, arm, vi, first, out, firstOut, decoded>>
    /\ UNCHANGED <<impure, lazyVars>>

\* the caller hands in the decimal string of the integer it handed in
RespellTimestamp ==
    /\ op = "timestamp" /\ pc = "ret" /\ round = 1
    /\ j.type = "int"
    /\ first' = result
    /\ j' = JStr(i64_to_string(j.n))
    /\ round' = 2
    /\ pc' = "call"
    /\ result' = None
    /\ UNCHANGED <<op, orig, j0, s, url, arm, vi, out, firstOut, decoded>>
    /\ UNCHANGED <<impure, lazyVars>>

\* ImpureFlakeRef::from_str, `match Url::parse(s)`, arm `Err(_)`
ImpureUrlErr ==
    /\ op = "impure" /\ pc = "icall"
    /\ ~UrlParse(s).ok
    /\ impure' = Impure_to_string(s)
    /\ pc' = "idone"
    /\ UNCHANGED <<op, orig, j0, s, j, round, url, arm, vi, result, first, out,
                   firstOut, decoded, lazyVars>>

\* ImpureFlakeRef::from_str, `match Url::parse(s)`, arm `Ok(_)`: s.parse()
\* calls FlakeRef::from_str
ImpureUrlOk ==
    /\ op = "impure" /\ pc = "icall"
    /\ UrlParse(s).ok
    /\ pc' = "call"
    /\ UNCHANGED <<op, orig, j0, s, j, round, url, arm, vi, result, first, out,
                   firstOut, decoded, impure, lazyVars>>

\* ImpureFlakeRef::from_str: FlakeRef::from_str has returned
ImpureReturns ==
    /\ op = "impure" /\ pc = "ret"
    /\ impure' = Pure_question_mark(s, result)
    /\ pc' = "idone"
    /\ UNCHANGED <<op, orig, j0, s, j, round, url, arm, vi, result, first, out,
                   firstOut, decoded, lazyVars>>

entryVars == <<op, orig, j0, s, j, round, pc, url, arm, vi, result, first, out,
               firstOut, decoded, impure>>

\* Lazy::force, OnceCell::get: thread t loads the state of the cell
LoadState(t) ==
    /\ op = "regex" /\ tpc[t] = "start"
    /\ obs' = [obs EXCEPT ![t] = cell.state]
    /\ tpc' = [tpc EXCEPT ![t] = "loaded"]
    /\ UNCHANGED <<entryVars, cell, inits, writes, seen, hay, matched>>

\* the state t loaded is Complete: t takes the value of the cell
GetValue(t) ==
    /\ op = "regex" /\ tpc[t] = "loaded" /\ obs[t] = "Complete"
    /\ seen' = [seen EXCEPT ![t] = cell.value]
    /\ tpc' = [tpc EXCEPT ![t] = "have"]
    /\ UNCHANGED <<entryVars, cell, inits, writes, obs, hay, matched>>

\* the state t loaded is Incomplete: t exchanges it for Running and, if the
\* exchange succeeds, is the one to initialise
ExchangeWins(t) ==
    /\ op = "regex" /\ tpc[t] = "loaded" /\ obs[t] = "Incomplete"
    /\ compare_exchange(obs[t], cell.state)
    /\ cell' = [cell EXCEPT !.state = "Running"]
    /\ tpc' = [tpc EXCEPT ![t] = "init"]
    /\ UNCHANGED <<entryVars, inits, writes, obs, seen, hay, matched>>

\* the exchange fails: t goes on with the state the exchange returned
ExchangeLoses(t) ==
    /\ op = "regex" /\ tpc[t] = "loaded" /\ obs[t] = "Incomplete"
    /\ ~compare_exchange(obs[t], cell.state)
    /\ obs' = [obs EXCEPT ![t] = cell.state]
    /\ UNCHANGED <<entryVars, cell, inits, writes, tpc, seen, hay, matched>>

\* the state t loaded is Running: t waits until the initialising thread
\* wakes it, then loads the state again
Wait(t) ==
    /\ op = "regex" /\ tpc[t] = "loaded" /\ obs[t] = "Running"
    /\ cell.state # "Running"
    /\ obs' = [obs EXCEPT ![t] = cell.state]
    /\ UNCHANGED <<entryVars, cell, inits, writes, tpc, seen, hay, matched>>

\* the initialising thread runs the closure, Regex::new(..).unwrap(), and
\* writes the value
RunInit(t) ==
    /\ op = "regex" /\ tpc[t] = "init"
    /\ inits < NumThreads
    /\ cell' = [cell EXCEPT !.value = Pattern]
    /\ inits' = inits + 1
    /\ writes' = writes + 1
    /\ tpc' = [tpc EXCEPT ![t] = "publish"]
    /\ UNCHANGED <<entryVars, obs, seen, hay, matched>>

\* the initialising thread sets the state to Complete, wakes the waiters
\* and takes the value
Publish(t) ==
    /\ op = "regex" /\ tpc[t] = "publish"
    /\ cell' = [cell EXCEPT !.state = "Complete"]
    /\ seen' = [seen EXCEPT ![t] = cell.value]
    /\ tpc' = [tpc EXCEPT ![t] = "have"]
    /\ UNCHANGED <<entryVars, inits, writes, obs, hay, matched>>

\* t uses the pattern: FLAKE_ID_REGEX.is_match(id)
IsMatch(t) ==
    /\ op = "regex" /\ tpc[t] = "have"
    /\ matched' = [matched EXCEPT ![t] =
                      IF seen[t] = Pattern THEN Ok(FLAKE_ID_REGEX(hay[t])) ELSE Panic]
    /\ tpc' = [tpc EXCEPT ![t] = "done"]
    /\ UNCHANGED <<entryVars, cell, inits, writes, obs, seen, hay>>

Next ==
    \/ ImpureUrlErr \/ ImpureUrlOk \/ ImpureReturns
    \/ \E t \in Threads :
          \/ LoadState(t) \/ GetValue(t)
          \/ ExchangeWins(t) \/ ExchangeLoses(t) \/ Wait(t)
          \/ RunInit(t) \/ Publish(t) \/ IsMatch(t)
    \/ UrlParsed \/ UrlUnwrapPanics
    \/ ArmRejects \/ ArmAccepts \/ NoArm
    \/ Render \/ Reparse \/ Serialize
    \/ VariantMismatch \/ VariantDecodes \/ NoVariant
    \/ DeserializeBool \/ RespellBool
    \/ DeserializeTimestamp \/ RespellTimestamp

Spec == Init /\ [][Next]_vars

----------------------------------------------------------------------------
(* Properties                                                              *)

\* the canonical-form table of the specification, with the variant it names
CanonicalTable ==
    << <<"file+file:///somewhere/there", "FileFile">>,
       <<"file:///somewhere/there", "FileFile">>,
       <<"file+http://my.de/path/to/file", "FileHTTP">>,
       <<"http://my.de/path/to/file", "FileHTTP">>,
       <<"tarball+file:///somewhere/there", "TarballFile">>,
       <<"file:///somewhere/there.tar.gz", "TarballFile">>,
       <<"http://my.de/path/to/file.tar.gz", "TarballHTTP">>,
       <<"github:flox/runix", "Github">>,
       <<"gitlab:flox/runix", "Gitlab">>,
       <<"path:/somewhere/there", "Path">>,
       <<"git+file:///somewhere/there", "GitPath">>,
       <<"git+ssh://github.com/flox/runix", "GitSsh">>,
       <<"git+https://github.com/flox/runix", "GitHttps">>,
       <<"git+http://github.com/flox/runix", "GitHttp">>,
       <<"flake:nixpkgs", "Indirect">> >>

\* from_str has returned to its caller (who may have gone on since)
Returned == pc \in {"ret", "rendered", "deser", "decoded"}

\* C1: every string of the canonical-form table parses, to the variant the
\* table names, and the rendering of the parsed reference is the string
\* itself.
C1_CanonicalRoundTrip ==
    \A i \in 1..Len(CanonicalTable) :
        (op = "from_str" /\ round = 1 /\ orig = CanonicalTable[i][1]) =>
            /\ pc # "abort"
            /\ Returned => /\ result.kind = "ok"
                           /\ result.val.variant = CanonicalTable[i][2]
            /\ pc = "rendered" => out = orig

C1_Witness ==
    /\ op = "from_str" /\ round = 1 /\ pc = "rendered"
    /\ orig = "file:///somewhere/there.tar.gz"
    /\ result.kind = "ok" /\ result.val.variant = "TarballFile"
    /\ out = "file:///somewhere/there.tar.gz"

\* C2: when a string parses to a reference r, the rendering of r parses
\* too, to a value equal to r, and the rendering of that value is the
\* rendering of r; also when the string is not itself a canonical spelling.
C2_RenderParseRoundTrip ==
    (op = "from_str" /\ round = 2) =>
        /\ first.kind = "ok"
        /\ pc # "abort"
        /\ pc = "match" => arm <= NumArms
        /\ pc \in {"ret", "rendered"} => result = first
        /\ pc = "rendered" => out = firstOut

C2_Witness ==
    /\ op = "from_str" /\ round = 2 /\ pc = "rendered"
    /\ orig = "https://my.de?rev=abc&dir=sub"
    /\ firstOut = "https://my.de/?dir=sub&rev=abc"
    /\ result = first /\ out = firstOut

\* C3: from_str returns a typed result for every string and never aborts;
\* a string no recognizer accepts, such as "not-a-ref", gets
\* Err(ParseFlakeRefError::Invalid).
C3_TypedResultNeverAborts ==
    op = "from_str" =>
        /\ pc # "abort"
        /\ result.kind # "panic"
        /\ (orig = "not-a-ref" /\ round = 1 /\ pc # "call" /\ pc # "match")
              => result = Invalid

\* the variant a qualified string names, "" when the string is not qualified
QualifiedVariant(t) ==
    LET I == {i \in 2..NumArms :
                /\ Arms[i].family \in {"File", "Git"}
                /\ StartsWith(t, Arms[i].app \o "+" \o Arms[i].proto \o ":")}
    IN  IF I = {} THEN "" ELSE Arms[CHOOSE i \in I : TRUE].variant

\* C4: a string with a qualifier prefix (file+file:, ..., git+http:) is
\* always dispatched to the variant and transport the qualifier names,
\* whatever follows the prefix.
C4_QualifierSelectsVariant ==
    (op = "from_str" /\ round = 1 /\ QualifiedVariant(orig) # "") =>
        /\ pc # "abort"
        /\ Returned => /\ arm <= NumArms
                       /\ Arms[arm].variant = QualifiedVariant(orig)

\* the text of t before its query
BeforeQuery(t) ==
    LET q == IndexOf(t, "?") IN IF q = 0 THEN t ELSE SubSeq(t, 1, q - 1)

HasArchivePath(t) == \E e \in ArchiveExtensions : EndsWith(BeforeQuery(t), e)

BareTransport(t) ==
    IF StartsWith(t, "file:") THEN "File"
    ELSE IF StartsWith(t, "https:") THEN "HTTPS"
    ELSE IF StartsWith(t, "http:") THEN "HTTP"
    ELSE ""

\* C5: a bare file:, http: or https: url is dispatched to the Tarball
\* variant of its transport when its path ends in an archive extension and
\* to the File variant of its transport otherwise; the query plays no part.
C5_BareSchemeSniffing ==
    (op = "from_str" /\ round = 1 /\ BareTransport(orig) # "" /\ Returned) =>
        /\ arm <= NumArms
        /\ Arms[arm].variant =
              (IF HasArchivePath(orig) THEN "Tarball" ELSE "File")
                 \o BareTransport(orig)
        /\ result.kind = "ok" => result.val.variant = Arms[arm].variant

C5_Witness ==
    /\ op = "from_str" /\ round = 1 /\ pc = "ret"
    /\ orig = "https://my.de/path/to/file.tar.gz?rev=abc"
    /\ result.kind = "ok" /\ result.val.variant = "TarballHTTPS"

\* C6: once the recognizer of an arm has accepted the string, a failure of
\* that arm's parse is what from_str returns: the error of the arm's
\* family with the parser's error inside, never Invalid.
C6_CommitsToAcceptedVariant ==
    (op = "from_str" /\ pc = "ret" /\ arm <= NumArms) =>
        LET r == ArmBody(arm, s, url)
        IN  /\ ArmGuard(arm, s, url)
            /\ r.kind = "err" =>
                  /\ result.kind = "err"
                  /\ result.err.family = Arms[arm].family
                  /\ result.err.family # "Invalid"
                  /\ result.err.cause = r.err

C6_Witness ==
    /\ op = "from_str" /\ pc = "ret" /\ orig = "github:flox"
    /\ arm = 8
    /\ result.kind = "err" /\ result.err.family = "GitService"

\* C7: an identifier is accepted only when the whole of it matches from
\* its first character: github:fl0x-/runix parses, github:1flox/runix
\* does not.
C7_IdentifierMatchesFromStart ==
    (op = "from_str" /\ round = 1 /\ pc = "ret") =>
        /\ orig = "github:fl0x-/runix" => result.kind = "ok"
        /\ orig = "github:1flox/runix" => result.kind = "err"
        /\ (result.kind = "ok" /\ result.val.family = "GitService") =>
              FLAKE_ID_REGEX_anchored(result.val.data.owner)

\* C8: the boolean codec gives the boolean b for the native b and for the
\* string spelling of b, and an error for every other string.
C8_BoolCodecAgrees ==
    (op = "bool" /\ pc = "ret") =>
        /\ j.type = "bool" => result = Ok(j.b)
        /\ round = 2 => (result = first /\ result = Ok(j0.b))
        /\ (j.type = "string" /\ j.str \notin {"true", "false"})
              => result.kind = "err"
        /\ result.kind = "ok" => result.val \in BOOLEAN

C8_Witness ==
    /\ op = "bool" /\ pc = "ret" /\ round = 2
    /\ j0 = JBool(TRUE) /\ j = JStr("true")
    /\ result = Ok(TRUE) /\ first = Ok(TRUE)

\* C9: for every integer n of epoch seconds, decoding n and decoding the
\* decimal string of n agree: both give the same instant, or the integer
\* fails with FromInt(n) and the string with FromString.
C9_TimestampSpellingsAgree ==
    (op = "timestamp" /\ round = 2 /\ pc = "ret") =>
        IF first.kind = "ok" THEN result = first
        ELSE /\ first = Err([e |-> "FromInt", n |-> j0.n])
             /\ result.kind = "err"
             /\ result.err.e = "FromString"

\* the variants in the order the dispatcher's arms produce them
RECURSIVE Dedup(_)
Dedup(q) ==
    IF Len(q) <= 1 THEN q
    ELSE IF q[1] = q[2] THEN Dedup(Tail(q))
    ELSE <<q[1]>> \o Dedup(Tail(q))

DispatchOrder == Dedup([i \in 1..NumArms |-> Arms[i].variant])

\* C10: the untagged Deserialize tries the variants in the order of the
\* dispatcher's arms, and a reference both entry points decode gets the
\* same variant from both.
C10_SamePriorityOrder ==
    /\ (pc = "deser" /\ vi <= Len(FlakeRef)) =>
          (vi <= Len(DispatchOrder) /\ FlakeRef[vi] = DispatchOrder[vi])
    /\ (op = "from_str" /\ pc = "decoded") =>
          (decoded.kind = "ok" /\ decoded.val.variant = result.val.variant)

\* every thread that holds the pattern holds the compiled one, and the
\* closure has run, and the value has been written, at most once
InitialisedOnce ==
    op = "regex" =>
        /\ inits <= 1 /\ writes <= 1
        /\ cell.state = "Complete" => (inits = 1 /\ cell.value = Pattern)
        /\ \A t \in Threads :
              /\ tpc[t] \in {"have", "done"} =>
                    (seen[t] = Pattern /\ cell = [state |-> "Complete", value |-> Pattern])
              /\ tpc[t] = "done" => matched[t] = Ok(FLAKE_ID_REGEX(hay[t]))

\* C11: FLAKE_ID_REGEX is initialised at most once however the first uses
\* of several threads interleave, every thread gets the same, fully
\* initialised pattern, and once the cell is Complete nothing writes it.
C11_LazyInitialisedOnce ==
    /\ []InitialisedOnce
    /\ [][cell.state = "Complete" => cell' = cell]_vars

\* two first uses race: a thread still holds the Incomplete state it loaded
\* while another has initialised the cell and holds the pattern
C11_Witness ==
    /\ op = "regex" /\ inits = 1
    /\ \E t, u \in Threads :
          /\ tpc[t] = "loaded" /\ obs[t] = "Incomplete"
          /\ tpc[u] = "have" /\ seen[u] = Pattern
          /\ cell.state = "Complete"

\* C12: ImpureFlakeRef::from_str never fails on a string that is not a
\* url: it returns Impure with the string itself.  On a url it returns
\* Pure(r) for the r FlakeRef::from_str returns, and FlakeRef::from_str's
\* error, not Impure, when that parse fails.
C12_ImpureFromStr ==
    op = "impure" =>
        /\ pc # "abort" /\ result.kind # "panic"
        /\ pc = "idone" =>
              IF ~UrlParse(orig).ok
              THEN /\ impure = Ok([variant |-> "Impure", str |-> orig])
                   /\ result = None
              ELSE IF result.kind = "ok"
              THEN impure = Ok([variant |-> "Pure", ref |-> result.val])
              ELSE /\ result.kind = "err"
                   /\ impure = result

C12_Witness ==
    /\ op = "impure" /\ pc = "idone"
    /\ orig = "not-a-ref"
    /\ impure = Ok([variant |-> "Impure", str |-> "not-a-ref"])

====
